---------------------------- MODULE Spec2Model ----------------------------
(***************************************************************************)
(* A model of xsig: the annotation table (xsig/annot.py), the gene         *)
(* signature and its scores (xsig/signature.py) and the two database       *)
(* loaders (xsig/io.py).                                                   *)
(*                                                                         *)
(* Text is modelled as a sequence of chunks (a chunk is a run of           *)
(* characters that no operation of the program cuts), so that split,       *)
(* strip, startswith and "+" are computed and not assumed.                 *)
(***************************************************************************)
EXTENDS Integers, Sequences, FiniteSets, TLC

VARIABLES
    \* Annotation (annot.py)
    version,        \* Annotation.__version
    data,           \* Annotation.__data: None, or the rows in table order
    gene_to_id,     \* Annotation.__gene_to_id: None, or the reverse index
    store,          \* the HDF5 file save/load work on: key -> saved rows
    ann_op,         \* the last Annotation call
    ann_res,        \* what the last Annotation call returned or raised
    \* GeneSignature (signature.py)
    gset,           \* GeneSignature._gset: the ordered (gene, weight) pairs
    bias,           \* GeneSignature._bias
    sig_pc,         \* "new", "built", or the exception __init__ raised
    ctor_gid,       \* the gid argument of the last __init__
    ctor_w,         \* the w argument of the last __init__
    remap_arg,      \* the last remap call: whether made, and its old_to_new
    remap_ret,      \* what the last remap returned
    \* GSS.average (signature.py)
    X,              \* the caller's expression data
    avg_w,          \* the last average(gs, X, weighted=True)
    avg_u,          \* the last average(gs, X, weighted=False)
    \* load_gmt_genesigdb (io.py)
    gmt_db,         \* db
    gmt_discarded,  \* discarded
    gmt_line,       \* the line the loop body ran on last
    gmt_n,          \* lines read so far
    gmt_pc,         \* "loop", "raised" or "returned"
    \* load_xml_msigdb (io.py)
    xml_db,         \* db
    xml_discarded,  \* discarded
    xml_seen,       \* the GENESET elements the loop body ran on, in order
    xml_pc          \* "loop", "raised" or "returned"

annVars == <<version, data, gene_to_id, store, ann_op, ann_res>>
sigVars == <<gset, bias, sig_pc, ctor_gid, ctor_w, remap_arg, remap_ret>>
gssVars == <<X, avg_w, avg_u>>
gmtVars == <<gmt_db, gmt_discarded, gmt_line, gmt_n, gmt_pc>>
xmlVars == <<xml_db, xml_discarded, xml_seen, xml_pc>>
vars == <<annVars, sigVars, gssVars, gmtVars, xmlVars>>

---------------------------------------------------------------------------
(* Text and Python dictionaries. *)

\* Python's None. A variable that may hold None holds a non-empty table or
\* dict otherwise (read_table raises EmptyDataError on a source without rows).
None == <<>>

\* The outcome of a call: the value returned, or the exception raised.
Ok(v) == [exc |-> "", val |-> v]
Raise(e) == [exc |-> e, val |-> None]

\* A call: the method and its argument.
Call(name, arg) == [name |-> name, arg |-> arg]

\* The chunks str.strip() removes.
Whitespace == {" ", "\t", "\n", "\r"}

\* s[from:], Python's slice of a list or str from a 1-based position.
SliceFrom(s, from) == SubSeq(s, from, Len(s))

\* str.lstrip() and str.rstrip().
RECURSIVE LStrip(_)
LStrip(s) ==
    IF s # <<>> /\ Head(s) \in Whitespace THEN LStrip(Tail(s)) ELSE s

RECURSIVE RStrip(_)
RStrip(s) ==
    IF s # <<>> /\ s[Len(s)] \in Whitespace
    THEN RStrip(SubSeq(s, 1, Len(s) - 1)) ELSE s

\* str.strip().
Strip(s) == RStrip(LStrip(s))

\* str.split(sep) for a one-chunk separator: always at least one piece.
RECURSIVE SplitFrom(_, _, _)
SplitFrom(s, sep, cur) ==
    IF s = <<>> THEN <<cur>>
    ELSE IF Head(s) = sep THEN <<cur>> \o SplitFrom(Tail(s), sep, <<>>)
    ELSE SplitFrom(Tail(s), sep, Append(cur, Head(s)))

Split(s, sep) == SplitFrom(s, sep, <<>>)

\* str.startswith(prefix).
StartsWith(s, prefix) ==
    Len(s) >= Len(prefix) /\ SubSeq(s, 1, Len(prefix)) = prefix

\* d[k] = v on a dict: a function from its keys.
DictPut(d, k, v) == [x \in DOMAIN d \cup {k} |-> IF x = k THEN v ELSE d[x]]

\* {}, the empty dict.
EmptyDict == <<>>

\* The keys of dict(zip(ks, vs)) in insertion order: a key keeps the place of
\* its first occurrence.
RECURSIVE ZipKeys(_, _)
ZipKeys(ks, acc) ==
    IF ks = <<>> THEN acc
    ELSE ZipKeys(Tail(ks),
                 IF \E i \in 1..Len(acc) : acc[i] = Head(ks)
                 THEN acc ELSE Append(acc, Head(ks)))

\* The position whose value dict(zip(ks, vs)) keeps for key k: the first one
\* (the slip a "setdefault" would make).
FirstIndexOf(ks, k) == CHOOSE i \in 1..Len(ks) :
    ks[i] = k /\ \A j \in 1..Len(ks) : ks[j] = k => i <= j

\* The position whose value dict(zip(ks, vs)) keeps for key k: the last one.
LastIndexOf(ks, k) == CHOOSE i \in 1..Len(ks) :
    ks[i] = k /\ \A j \in 1..Len(ks) : ks[j] = k => j <= i

\* dict(zip(ks, vs)) as a function: later pairs overwrite earlier ones.
DictZip(ks, vs) ==
    [k \in {ks[i] : i \in 1..Len(ks)} |-> vs[LastIndexOf(ks, k)]]

---------------------------------------------------------------------------
(* Annotation (annot.py). *)

\* The marker pandas stores for a missing value (numpy.nan).
NaN == <<"NaN">>

\* na_values=['-']: the field texts read_table reads as missing.
NaValues == {<<"-">>}

\* One field as read_table reads it with dtype=str: text kept as text, the
\* missing-value token turned into NaN.
ReadField(f) == IF f \in NaValues THEN NaN ELSE f

\* names=[...]: one row of the table from the six fields of a source row.
ReadRow(r) ==
    [EntrezID   |-> ReadField(r[1]), Symbol   |-> ReadField(r[2]),
     Symbol_alt |-> ReadField(r[3]), Chr_pos  |-> ReadField(r[4]),
     Synonyms   |-> ReadField(r[5]), Title    |-> ReadField(r[6])]

\* pd.read_table(fname, header=None, names=..., na_values=['-'], dtype=str).
ReadTable(src) == [i \in 1..Len(src) |-> ReadRow(src[i])]

\* A column of the table, in row order.
Column(rows, c) == [i \in 1..Len(rows) |-> rows[i][c]]

\* The slip of building the index from the first row of each symbol.
FirstWinsIndex(rows) ==
    [s \in {rows[i].Symbol : i \in 1..Len(rows)} |->
        rows[FirstIndexOf(Column(rows, "Symbol"), s)].EntrezID]

\* dict(zip(self.__data.Symbol, self.__data.EntrezID)).
ReverseIndex(rows) == DictZip(Column(rows, "Symbol"), Column(rows, "EntrezID"))

\* 'annot_' + self.__version, the key save writes.
SaveKey(ver) == <<"annot_">> \o ver

\* 'annot-' + ver, the key load reads.
LoadKey(ver) == <<"annot-">> \o ver

\* Annotation.__init__(v=0).
AnnInit ==
    /\ version = <<"0">>
    /\ data = None
    /\ gene_to_id = None
    /\ ann_op = Call("__init__", None)
    /\ ann_res = Ok(None)

\* Annotation.read_from_table(fname, ver), fname holding the rows src.
ReadFromTable(src, ver) ==
    /\ data' = ReadTable(src)
    /\ version' = ver
    /\ gene_to_id' = ReverseIndex(ReadTable(src))
    /\ ann_op' = Call("read_from_table", ver)
    /\ ann_res' = Ok(None)
    /\ UNCHANGED store

\* Annotation.save(fname): to_hdf(..., mode='a') adds or replaces one key.
Save ==
    /\ ann_op' = Call("save", None)
    /\ IF data = None
       THEN /\ ann_res' = Raise("AttributeError")
            /\ UNCHANGED store
       ELSE /\ store' = DictPut(store, SaveKey(version), data)
            /\ ann_res' = Ok(None)
    /\ UNCHANGED <<version, data, gene_to_id>>

\* Annotation.load(fname, ver): the version is set before the store is read.
Load(ver) ==
    /\ ann_op' = Call("load", ver)
    /\ version' = ver
    /\ IF LoadKey(ver) \in DOMAIN store
       THEN /\ data' = store[LoadKey(ver)]
            /\ gene_to_id' = ReverseIndex(store[LoadKey(ver)])
            /\ ann_res' = Ok(None)
       ELSE /\ ann_res' = Raise("KeyError")
            /\ UNCHANGED <<data, gene_to_id>>
    /\ UNCHANGED store

\* Annotation.id_from_symbol(gene): self.__gene_to_id[gene].
id_from_symbol(gene) ==
    IF gene_to_id = None THEN Raise("TypeError")
    ELSE IF gene \in DOMAIN gene_to_id THEN Ok(gene_to_id[gene])
    ELSE Raise("KeyError")

\* Annotation.gene_from_id(id): self.__data.Symbol[id], the table indexed by
\* EntrezID.
gene_from_id(id) ==
    IF data = None THEN Raise("AttributeError")
    ELSE IF \E i \in 1..Len(data) : data[i].EntrezID = id
    THEN Ok(data[CHOOSE i \in 1..Len(data) : data[i].EntrezID = id].Symbol)
    ELSE Raise("KeyError")

\* A call of id_from_symbol.
CallIdFromSymbol(gene) ==
    /\ ann_op' = Call("id_from_symbol", gene)
    /\ ann_res' = id_from_symbol(gene)
    /\ UNCHANGED <<version, data, gene_to_id, store>>

\* A call of gene_from_id.
CallGeneFromId(id) ==
    /\ ann_op' = Call("gene_from_id", id)
    /\ ann_res' = gene_from_id(id)
    /\ UNCHANGED <<version, data, gene_to_id, store>>

---------------------------------------------------------------------------
(* GeneSignature (signature.py). *)

\* The w argument of __init__: None, a list, or a constant.
NoWeights == [kind |-> "None", v |-> <<>>]
ListWeights(l) == [kind |-> "list", v |-> l]
ScalarWeight(x) == [kind |-> "scalar", v |-> <<x>>]

\* np.ones(n) and an ndarray of n cells filled with x.
Filled(n, x) == [i \in 1..n |-> x]

\* The slip of keeping, for a repeated gene, the weight of its first place.
FirstWinsSeries(ks, vs) ==
    LET keys == ZipKeys(ks, <<>>)
    IN  [i \in 1..Len(keys) |->
            [gene |-> keys[i], w |-> vs[FirstIndexOf(ks, keys[i])]]]

\* Series(dict(zip(ks, vs))): one (gene, weight) entry per distinct gene.
SeriesOfZip(ks, vs) ==
    LET keys == ZipKeys(ks, <<>>)
    IN  [i \in 1..Len(keys) |-> [gene |-> keys[i], w |-> DictZip(ks, vs)[keys[i]]]]

\* The outcome of the weights branch of __init__: the Series it builds, or
\* the ValueError it raises.
InitSeries(gid, w) ==
    IF w.kind = "None" THEN Ok(SeriesOfZip(gid, Filled(Len(gid), 1)))
    ELSE IF w.kind = "list"
    THEN IF Len(w.v) = 1
         THEN Ok(SeriesOfZip(gid, Filled(Len(gid), w.v[1])))
         ELSE IF Len(w.v) = Len(gid)
         THEN Ok(SeriesOfZip(gid, w.v))
         ELSE Raise("ValueError")
    ELSE Ok(SeriesOfZip(gid, Filled(Len(gid), w.v[1])))

\* b as __init__ stores it: 0.0 for None.
InitBias(b) == IF b = None THEN 0 ELSE b[1]

\* No GeneSignature object yet.
SigNew ==
    /\ gset = None
    /\ bias = 0
    /\ sig_pc = "new"
    /\ ctor_gid = None
    /\ ctor_w = NoWeights
    /\ remap_arg = [called |-> FALSE, old_to_new |-> EmptyDict]
    /\ remap_ret = Ok(None)

\* GeneSignature.__init__(gid, w, b).
Construct(gid, w, b) ==
    /\ sig_pc = "new"
    /\ ctor_gid' = gid
    /\ ctor_w' = w
    /\ bias' = InitBias(b)
    /\ IF InitSeries(gid, w).exc = ""
       THEN /\ gset' = InitSeries(gid, w).val
            /\ sig_pc' = "built"
       ELSE /\ sig_pc' = InitSeries(gid, w).exc
            /\ UNCHANGED gset
    /\ UNCHANGED <<remap_arg, remap_ret>>

\* GeneSignature.genes(): self._gset.index.tolist().
genes(gs) == [i \in 1..Len(gs) |-> gs[i].gene]

\* GeneSignature.remap(old_to_new): the body is the docstring alone.
Remap(old_to_new) ==
    /\ sig_pc = "built"
    /\ remap_arg' = [called |-> TRUE, old_to_new |-> old_to_new]
    /\ remap_ret' = Ok(None)
    /\ UNCHANGED <<gset, bias, sig_pc, ctor_gid, ctor_w>>

---------------------------------------------------------------------------
(* GSS.average (signature.py). *)

\* An expression input: a Series (one sample), a DataFrame (its rows the
\* samples) or something else; a sample is a dict from gene to value.
Expr(kind, rows) == [kind |-> kind, rows |-> rows]

\* No call of average yet.
NoCall == [called |-> FALSE, res |-> Ok(None)]

Abs(n) == IF n < 0 THEN -n ELSE n

Sign(n) == IF n < 0 THEN -1 ELSE IF n > 0 THEN 1 ELSE 0

RECURSIVE Gcd(_, _)
Gcd(a, b) == IF b = 0 THEN a ELSE Gcd(b, a % b)

\* a / b on float64 values, kept exact: a fraction in lowest terms with a
\* positive denominator; x / 0 is inf, -inf or nan (numpy divides without
\* raising), written sign(x) / 0.
Div(a, b) ==
    IF b = 0 THEN [num |-> Sign(a), den |-> 0]
    ELSE LET g == Gcd(Abs(a), Abs(b))
         IN  [num |-> (Sign(b) * a) \div g, den |-> Abs(b) \div g]

RECURSIVE SumSeq(_)
SumSeq(s) == IF s = <<>> THEN 0 ELSE Head(s) + SumSeq(Tail(s))

\* gs.gset.sum().
WeightSum(gs) == SumSeq([i \in 1..Len(gs) |-> gs[i].w])

\* X[gs.genes()].dot(gs.gset) for one sample.
Dot(sample, gs) == SumSeq([i \in 1..Len(gs) |-> sample[gs[i].gene] * gs[i].w])

\* X[gs.genes()].mean() for one sample.
Mean(sample, gs) ==
    Div(SumSeq([i \in 1..Len(gs) |-> sample[gs[i].gene]]), Len(gs))

\* The slip of dividing the weighted sum by the number of genes.
DotOverCount(sample, gs) == Div(Dot(sample, gs), Len(gs))

\* X[gs.genes()].dot(gs.gset) / s for one sample.
WeightedMean(sample, gs) == Div(Dot(sample, gs), WeightSum(gs))

\* X[gs.genes()] finds every gene of the signature among the labels of X.
Covers(x, gs) ==
    \A r \in 1..Len(x.rows) :
        \A i \in 1..Len(genes(gs)) : genes(gs)[i] \in DOMAIN x.rows[r]

\* GSS.average(gs, X, weighted): one score per sample, or the exception.
average(gs, x, weighted) ==
    IF x.kind \notin {"DataFrame", "Series"} THEN Raise("ValueError")
    ELSE IF ~Covers(x, gs) THEN Raise("KeyError")
    ELSE IF weighted
    THEN Ok([r \in 1..Len(x.rows) |-> WeightedMean(x.rows[r], gs)])
    ELSE Ok([r \in 1..Len(x.rows) |-> Mean(x.rows[r], gs)])

\* A call of GSS.average(gs, X, weighted) on the signature built.
Average(weighted) ==
    /\ sig_pc = "built"
    /\ IF weighted
       THEN /\ avg_w' = [called |-> TRUE, res |-> average(gset, X, TRUE)]
            /\ UNCHANGED avg_u
       ELSE /\ avg_u' = [called |-> TRUE, res |-> average(gset, X, FALSE)]
            /\ UNCHANGED avg_w
    /\ UNCHANGED X

---------------------------------------------------------------------------
(* The loaders (io.py). *)

\* GeneSignature(gid, info=url) as the loaders store it in db.
Signature(gid, info) ==
    [gset |-> InitSeries(gid, NoWeights).val, bias |-> InitBias(None),
     info |-> info]

\* What one pass of a loader's loop body leaves: db, discarded, and the
\* exception that left the loop, if any.
Pass(db, discarded, exc) == [db |-> db, discarded |-> discarded, exc |-> exc]

\* The test that keeps a GMT line: tokens[1].startswith('Human').
GmtKeep(organism) == StartsWith(organism, <<"Human">>)

\* tokens after "tokens[-1] = tokens[1].strip()": the last token is replaced
\* by the stripped second token.
GmtStripLast(tokens) == [tokens EXCEPT ![Len(tokens)] = Strip(tokens[2])]

\* 'GS_' + tokens[0].
GmtKey(id) == <<"GS_">> \o id

\* The GeneSigDB search URL + tokens[0].
GmtUrl(id) ==
    <<"http://compbio.dfci.harvard.edu/genesigdb/publicationSearch.jsp?searchQuery=">>
        \o id

\* [annot.id_from_symbol(g) for g in symbols]: the list, or the first
\* exception.
RECURSIVE IdsFromSymbols(_)
IdsFromSymbols(symbols) ==
    IF symbols = <<>> THEN Ok(<<>>)
    ELSE LET first == id_from_symbol(Head(symbols))
             rest  == IdsFromSymbols(Tail(symbols))
         IN  IF first.exc # "" THEN Raise(first.exc)
             ELSE IF rest.exc # "" THEN Raise(rest.exc)
             ELSE Ok(<<first.val>> \o rest.val)

\* The body of the loop of load_gmt_genesigdb on one line of the file.
GmtBody(db, discarded, line) ==
    LET tokens == Split(line, "\t")
    IN  IF Len(tokens) < 2 THEN Pass(db, discarded, "IndexError")
        ELSE IF ~GmtKeep(tokens[2])
        THEN Pass(db, Append(discarded, tokens[1]), "")
        ELSE LET gid == IdsFromSymbols(SliceFrom(GmtStripLast(tokens), 3))
             IN  IF gid.exc = "KeyError"
                 THEN Pass(db, Append(discarded, tokens[1]), "")
                 ELSE IF gid.exc # "" THEN Pass(db, discarded, gid.exc)
                 ELSE Pass(DictPut(db, GmtKey(tokens[1]),
                                   Signature(gid.val, GmtUrl(tokens[1]))),
                           discarded, "")

\* load_gmt_genesigdb before its loop.
GmtStart ==
    /\ gmt_db = EmptyDict
    /\ gmt_discarded = <<>>
    /\ gmt_line = <<>>
    /\ gmt_n = 0
    /\ gmt_pc = "loop"

\* One iteration of "for line in f".
GmtLine(line) ==
    /\ gmt_pc = "loop"
    /\ gmt_line' = line
    /\ gmt_n' = gmt_n + 1
    /\ gmt_db' = GmtBody(gmt_db, gmt_discarded, line).db
    /\ gmt_discarded' = GmtBody(gmt_db, gmt_discarded, line).discarded
    /\ gmt_pc' = IF GmtBody(gmt_db, gmt_discarded, line).exc = ""
                 THEN "loop" ELSE "raised"

\* The end of the file: return db, discarded.
GmtReturn ==
    /\ gmt_pc = "loop"
    /\ gmt_pc' = "returned"
    /\ UNCHANGED <<gmt_db, gmt_discarded, gmt_line, gmt_n>>

\* The attributes the loop body of load_xml_msigdb reads of a kept element.
XmlAttributes ==
    {"ORGANISM", "MEMBERS_EZID", "STANDARD_NAME", "SYSTEMATIC_NAME",
     "CATEGORY_CODE"}

\* The filter dropped: every element kept.
XmlKeepAll(organism) == TRUE

\* The test that keeps a GENESET element: ORGANISM is 'Homo sapiens'.
XmlKeep(organism) == organism = <<"Homo sapiens">>

\* sig.attrib['CATEGORY_CODE'] + '_' + sig.attrib['SYSTEMATIC_NAME'].
XmlKey(category, systematic) == category \o <<"_">> \o systematic

\* The MSigDB gene set page URL + sig.attrib['STANDARD_NAME'].
XmlUrl(standard) ==
    <<"http://www.broadinstitute.ors/gsea/msigdb/geneset_page.jsp?geneSetName=">>
        \o standard

\* The body of the loop of load_xml_msigdb on one GENESET element, attrib
\* its attributes (a dict: reading an absent attribute raises KeyError).
XmlBody(db, discarded, attrib) ==
    IF "ORGANISM" \notin DOMAIN attrib THEN Pass(db, discarded, "KeyError")
    ELSE IF ~XmlKeep(attrib["ORGANISM"])
    THEN IF "SYSTEMATIC_NAME" \notin DOMAIN attrib
         THEN Pass(db, discarded, "KeyError")
         ELSE Pass(db, Append(discarded, attrib["SYSTEMATIC_NAME"]), "")
    ELSE IF ~(XmlAttributes \subseteq DOMAIN attrib)
    THEN Pass(db, discarded, "KeyError")
    ELSE Pass(DictPut(db,
                      XmlKey(attrib["CATEGORY_CODE"], attrib["SYSTEMATIC_NAME"]),
                      Signature(Split(attrib["MEMBERS_EZID"], ","),
                                XmlUrl(attrib["STANDARD_NAME"]))),
              discarded, "")

\* load_xml_msigdb before its loop.
XmlStart ==
    /\ xml_db = EmptyDict
    /\ xml_discarded = <<>>
    /\ xml_seen = <<>>
    /\ xml_pc = "loop"

\* One iteration of "for sig in xml_root.findall('GENESET')".
XmlElement(attrib) ==
    /\ xml_pc = "loop"
    /\ xml_seen' = Append(xml_seen, attrib)
    /\ xml_db' = XmlBody(xml_db, xml_discarded, attrib).db
    /\ xml_discarded' = XmlBody(xml_db, xml_discarded, attrib).discarded
    /\ xml_pc' = IF XmlBody(xml_db, xml_discarded, attrib).exc = ""
                 THEN "loop" ELSE "raised"

\* The end of the elements: return db, discarded.
XmlReturn ==
    /\ xml_pc = "loop"
    /\ xml_pc' = "returned"
    /\ UNCHANGED <<xml_db, xml_discarded, xml_seen>>

---------------------------------------------------------------------------
(* The inputs the calls are made with. *)

MaxRows == 2        \* rows of an annotation source
MaxStoreRows == 1   \* rows of an annotation source that is saved and loaded
MaxGenes == 2       \* length of a gid list
MaxSamples == 2     \* rows of an expression DataFrame
MaxSymbols == 2     \* gene symbols on a GMT line
MaxLines == 2       \* lines of a GMT file
MaxElements == 2    \* GENESET elements of an XML file

\* All sequences over S of length lo..hi.
SeqsOf(S, lo, hi) == UNION {[1..n -> S] : n \in lo..hi}

\* No two places of s hold the same f-field.
Distinct(s, f) == \A i, j \in 1..Len(s) : s[i][f] = s[j][f] => i = j

IdTexts == {<<"100">>, <<"200">>, <<"300">>}
SymbolTexts == {<<"GENE_A">>, <<"GENE_B">>, <<"-">>}
TitleTexts == {<<"-">>, <<"a title">>}
Versions == {<<"v1">>, <<"v2">>}

\* One six-field row of an annotation source.
SourceRow(id, symbol, title) == <<id, symbol, <<"-">>, <<"1p36">>, <<"-">>, title>>

\* The valid sources of at most n rows over the given symbols and titles:
\* the identifiers are unique.
Sources(n, symbols, titles) ==
    {src \in SeqsOf({SourceRow(i, y, t) : i \in IdTexts, y \in symbols, t \in titles},
                    1, n) : Distinct(src, 1)}

\* The sources read to query the table, and those read to save it.
QuerySources == Sources(MaxRows, SymbolTexts, {<<"a title">>})
StoreSources == Sources(MaxStoreRows, {<<"GENE_A">>, <<"-">>}, TitleTexts)

\* The annotations the GMT loader is given.
GmtSourceRows ==
    {SourceRow(<<"100">>, <<"GENE_A">>, <<"-">>),
     SourceRow(<<"200">>, <<"GENE_B">>, <<"-">>),
     SourceRow(<<"300">>, <<"Human">>, <<"-">>)}

GmtSources == {src \in SeqsOf(GmtSourceRows, 1, MaxRows) : Distinct(src, 1)}

\* A store another program wrote a table to, under the key load reads.
ForeignStore ==
    DictPut(EmptyDict, LoadKey(<<"v1">>),
            ReadTable(<<SourceRow(<<"300">>, <<"GENE_A">>, <<"-">>)>>))

SigGenes == {<<"100">>, <<"200">>}
WeightValues == {-2, 0, 2}
GidLists == SeqsOf(SigGenes, 0, MaxGenes)

CtorWeights ==
    {NoWeights} \cup {ScalarWeight(x) : x \in WeightValues}
        \cup {ListWeights(l) : l \in SeqsOf(WeightValues, 0, MaxGenes)}

Biases == {None, <<1>>}

RemapMaps == UNION {[D -> IdTexts] : D \in SUBSET SigGenes}

ExprValues == {1, 3}
Samples == UNION {[D -> ExprValues] : D \in {SigGenes, {<<"100">>}}}

\* The rows of a DataFrame share its columns.
ExprInputs ==
    {Expr("Series", <<r>>) : r \in Samples}
        \cup {Expr("DataFrame", rows) :
                rows \in {f \in SeqsOf(Samples, 1, MaxSamples) :
                            \A i \in 1..Len(f) : DOMAIN f[i] = DOMAIN f[1]}}
        \cup {Expr("list", <<>>)}

\* The fields of a line joined by tabs.
RECURSIVE JoinTab(_)
JoinTab(fields) ==
    IF Len(fields) = 1 THEN fields[1]
    ELSE fields[1] \o <<"\t">> \o JoinTab(Tail(fields))

SignatureIds == {<<"SIG1">>, <<"SIG2">>}
OrganismMarkers == {<<"Human">>, <<"Human", "-derived">>, <<"Mouse">>}
LineEnds == {<<"\n">>, <<"\r", "\n">>}
GmtSymbols == {<<"GENE_A">>, <<"GENE_B">>}

\* Lines [signature_id, organism_marker, symbols...], lines without an
\* organism field, and blank lines.
GmtLines ==
    {JoinTab(<<id, org>> \o syms) \o end :
        id \in SignatureIds, org \in OrganismMarkers,
        syms \in SeqsOf(GmtSymbols, 0, MaxSymbols), end \in LineEnds}
        \cup {id \o end : id \in SignatureIds, end \in LineEnds}
        \cup LineEnds

Organisms == {<<"Homo sapiens">>, <<"Mus musculus">>}
MemberLists == {<<"100">>, <<"100", ",", "200">>, <<"200", ",", "200">>}
StandardNames == {<<"NUCLEOPLASM">>}
SystematicNames == {<<"M1">>, <<"M2">>}
CategoryCodes == {<<"C1">>, <<"C5">>}

\* attrib without attribute a.
Without(attrib, a) == [k \in DOMAIN attrib \ {a} |-> attrib[k]]

\* GENESET elements carrying every attribute, and elements lacking one.
FullElements ==
    {[ORGANISM |-> o, MEMBERS_EZID |-> m, STANDARD_NAME |-> n,
      SYSTEMATIC_NAME |-> y, CATEGORY_CODE |-> c] :
        o \in Organisms, m \in MemberLists, n \in StandardNames,
        y \in SystematicNames, c \in CategoryCodes}

XmlElements ==
    FullElements \cup
    {Without(e, a) : a \in XmlAttributes,
        e \in {f \in FullElements : /\ f.MEMBERS_EZID = <<"100">>
                                    /\ f.SYSTEMATIC_NAME = <<"M1">>
                                    /\ f.CATEGORY_CODE = <<"C1">>}}

---------------------------------------------------------------------------
(* The specifications: one per component, the others at rest. *)

GssStart ==
    /\ avg_w = NoCall
    /\ avg_u = NoCall

\* The annotation table built and queried.
InitAnnot ==
    /\ AnnInit
    /\ store = EmptyDict
    /\ SigNew
    /\ X = Expr("list", <<>>)
    /\ GssStart
    /\ GmtStart
    /\ XmlStart

NextAnnot ==
    \/ \E src \in QuerySources, ver \in Versions :
          ReadFromTable(src, ver) /\ UNCHANGED <<sigVars, gssVars, gmtVars, xmlVars>>
    \/ \E gene \in SymbolTexts \cup {NaN} :
          CallIdFromSymbol(gene) /\ UNCHANGED <<sigVars, gssVars, gmtVars, xmlVars>>
    \/ \E id \in IdTexts :
          CallGeneFromId(id) /\ UNCHANGED <<sigVars, gssVars, gmtVars, xmlVars>>

SpecAnnot == InitAnnot /\ [][NextAnnot]_vars

\* The annotation table saved and loaded.
InitStore ==
    /\ AnnInit
    /\ store \in {EmptyDict, ForeignStore}
    /\ SigNew
    /\ X = Expr("list", <<>>)
    /\ GssStart
    /\ GmtStart
    /\ XmlStart

NextStore ==
    \/ \E src \in StoreSources, ver \in Versions :
          ReadFromTable(src, ver) /\ UNCHANGED <<sigVars, gssVars, gmtVars, xmlVars>>
    \/ Save /\ UNCHANGED <<sigVars, gssVars, gmtVars, xmlVars>>
    \/ \E ver \in Versions :
          Load(ver) /\ UNCHANGED <<sigVars, gssVars, gmtVars, xmlVars>>

SpecStore == InitStore /\ [][NextStore]_vars

\* A signature constructed and remapped.
InitSig ==
    /\ AnnInit
    /\ store = EmptyDict
    /\ SigNew
    /\ X = Expr("list", <<>>)
    /\ GssStart
    /\ GmtStart
    /\ XmlStart

NextSig ==
    \/ \E gid \in GidLists, w \in CtorWeights, b \in Biases :
          Construct(gid, w, b) /\ UNCHANGED <<annVars, gssVars, gmtVars, xmlVars>>
    \/ \E m \in RemapMaps :
          Remap(m) /\ UNCHANGED <<annVars, gssVars, gmtVars, xmlVars>>

SpecSig == InitSig /\ [][NextSig]_vars

\* A signature constructed and scored on the caller's expression data.
InitAvg ==
    /\ AnnInit
    /\ store = EmptyDict
    /\ SigNew
    /\ X \in ExprInputs
    /\ GssStart
    /\ GmtStart
    /\ XmlStart

NextAvg ==
    \/ \E gid \in GidLists, w \in CtorWeights :
          Construct(gid, w, None) /\ UNCHANGED <<annVars, gssVars, gmtVars, xmlVars>>
    \/ \E weighted \in BOOLEAN :
          Average(weighted) /\ UNCHANGED <<annVars, sigVars, gmtVars, xmlVars>>

SpecAvg == InitAvg /\ [][NextAvg]_vars

\* A GMT file loaded with an annotation read from a table.
InitGmt ==
    /\ \E src \in GmtSources :
          /\ data = ReadTable(src)
          /\ gene_to_id = ReverseIndex(ReadTable(src))
    /\ version = <<"v1">>
    /\ ann_op = Call("read_from_table", <<"v1">>)
    /\ ann_res = Ok(None)
    /\ store = EmptyDict
    /\ SigNew
    /\ X = Expr("list", <<>>)
    /\ GssStart
    /\ GmtStart
    /\ XmlStart

NextGmt ==
    \/ \E line \in GmtLines :
          /\ gmt_n < MaxLines
          /\ GmtLine(line)
          /\ UNCHANGED <<annVars, sigVars, gssVars, xmlVars>>
    \/ GmtReturn /\ UNCHANGED <<annVars, sigVars, gssVars, xmlVars>>

SpecGmt == InitGmt /\ [][NextGmt]_vars

\* An XML file loaded.
InitXml ==
    /\ AnnInit
    /\ store = EmptyDict
    /\ SigNew
    /\ X = Expr("list", <<>>)
    /\ GssStart
    /\ GmtStart
    /\ XmlStart

NextXml ==
    \/ \E attrib \in XmlElements :
          /\ Len(xml_seen) < MaxElements
          /\ XmlElement(attrib)
          /\ UNCHANGED <<annVars, sigVars, gssVars, gmtVars>>
    \/ XmlReturn /\ UNCHANGED <<annVars, sigVars, gssVars, gmtVars>>

SpecXml == InitXml /\ [][NextXml]_vars

---------------------------------------------------------------------------
(* The claims. *)

\* The tokens of the line the GMT loop ran on last, and its gene symbols as
\* the format defines them: the fields after the organism marker, the last
\* one without its line end.
LineTokens == Split(gmt_line', "\t")
LineId == LineTokens[1]
LineSymbols ==
    [i \in 1..(Len(LineTokens) - 2) |->
        IF i + 2 = Len(LineTokens) THEN Strip(LineTokens[i + 2])
        ELSE LineTokens[i + 2]]
\* The loop ran on a line of a human signature with at least one symbol.
HumanLineStep ==
    /\ gmt_n' = gmt_n + 1
    /\ Len(LineTokens) >= 3
    /\ StartsWith(LineTokens[2], <<"Human">>)
AllResolve == \A i \in 1..Len(LineSymbols) : LineSymbols[i] \in DOMAIN gene_to_id
LineGenes == {gene_to_id[LineSymbols[i]] : i \in 1..Len(LineSymbols)}

\* C1: a line [signature_id, Human..., symbol_1..symbol_n], n >= 1, whose
\* symbols all resolve (the last one stripped of its line end) puts
\* 'GS_<signature_id>' in db with exactly the genes id_from_symbol gives, and
\* does not put signature_id in the discard list.
C1_ResolvedLineKept ==
    [][(HumanLineStep /\ AllResolve) =>
          /\ GmtKey(LineId) \in DOMAIN gmt_db'
          /\ {e.gene : e \in {gmt_db'[GmtKey(LineId)].gset[i] :
                  i \in 1..Len(gmt_db'[GmtKey(LineId)].gset)}} = LineGenes
          /\ gmt_discarded' = gmt_discarded]_vars

\* C2: a human line with a gene symbol absent from the reverse index appends
\* signature_id to the discard list and adds nothing to db.
C2_AllOrNothing ==
    [][(HumanLineStep /\ ~AllResolve) =>
          /\ gmt_discarded' = Append(gmt_discarded, LineId)
          /\ gmt_db' = gmt_db]_vars

\* C4: no line of a readable file makes the loader raise.
C4_NoEntryRaises == gmt_pc # "raised"

\* The GENESET elements seen so far that are not 'Homo sapiens', and the
\* key of an element.
IsHuman(e) == e["ORGANISM"] = <<"Homo sapiens">>
ElementKey(e) == e["CATEGORY_CODE"] \o <<"_">> \o e["SYSTEMATIC_NAME"]
RECURSIVE OtherOrganismNames(_)
OtherOrganismNames(seen) ==
    IF seen = <<>> THEN <<>>
    ELSE IF IsHuman(Head(seen)) THEN OtherOrganismNames(Tail(seen))
    ELSE <<Head(seen)["SYSTEMATIC_NAME"]>> \o OtherOrganismNames(Tail(seen))
\* Every 'Homo sapiens' element is in db under its key, with weights of one
\* and bias 0.0; the discard list is the other elements' names in order.
HumanKeptOthersListed ==
    /\ xml_discarded = OtherOrganismNames(xml_seen)
    /\ \A i \in 1..Len(xml_seen) : IsHuman(xml_seen[i]) =>
          /\ ElementKey(xml_seen[i]) \in DOMAIN xml_db
          /\ xml_db[ElementKey(xml_seen[i])].bias = 0
          /\ \A j \in 1..Len(xml_db[ElementKey(xml_seen[i])].gset) :
                xml_db[ElementKey(xml_seen[i])].gset[j].w = 1
\* The element carries both parts of its key.
HasKey(e) == {"CATEGORY_CODE", "SYSTEMATIC_NAME"} \subseteq DOMAIN e

BuiltSeries == InitSeries(ctor_gid, ctor_w).val

\* C5: after remap(old_to_new) every gene that is a key of old_to_new is in
\* genes() as old_to_new[g] with its weight, and the call returned the genes
\* that are not keys of old_to_new (None or empty when there are none).
C5_RemapReplaces ==
    remap_arg.called =>
        /\ \A i \in 1..Len(BuiltSeries) :
              BuiltSeries[i].gene \in DOMAIN remap_arg.old_to_new =>
                  \E j \in 1..Len(gset) :
                      /\ gset[j].gene = remap_arg.old_to_new[BuiltSeries[i].gene]
                      /\ gset[j].w = BuiltSeries[i].w
        /\ remap_ret.exc = ""
        /\ {remap_ret.val[i] : i \in 1..Len(remap_ret.val)} =
              {BuiltSeries[i].gene : i \in 1..Len(BuiltSeries)}
                  \ DOMAIN remap_arg.old_to_new

\* C6: load(f, v) right after a save(f) of a table of version v succeeds and
\* yields the saved rows, the reverse index rebuilt from them.
C6_SaveLoadRoundTrip ==
    [][(/\ ann_op.name = "save" /\ ann_res.exc = ""
        /\ ann_op'.name = "load" /\ ann_op'.arg = version) =>
          /\ ann_res'.exc = ""
          /\ data' = data
          /\ gene_to_id' = ReverseIndex(data)]_vars

\* C7: __init__ with a list w raises ValueError when len(w) is neither 1 nor
\* len(gid); otherwise it builds a record holding each gene of gid once, with
\* weight w[0] when len(w) is 1 and else the weight at the gene's last place
\* in gid.
C7_ListWeights ==
    (sig_pc # "new" /\ ctor_w.kind = "list") =>
        IF Len(ctor_w.v) \notin {1, Len(ctor_gid)}
        THEN sig_pc = "ValueError"
        ELSE /\ sig_pc = "built"
             /\ {gset[i].gene : i \in 1..Len(gset)} =
                    {ctor_gid[i] : i \in 1..Len(ctor_gid)}
             /\ \A i, j \in 1..Len(gset) : gset[i].gene = gset[j].gene => i = j
             /\ \A i \in 1..Len(gset) :
                    gset[i].w = IF Len(ctor_w.v) = 1 THEN ctor_w.v[1]
                                ELSE ctor_w.v[LastIndexOf(ctor_gid, gset[i].gene)]

\* C7 witness: a signature built from a gene given twice with two weights.
C7_Witness ==
    /\ sig_pc = "built"
    /\ ctor_w.kind = "list"
    /\ Len(ctor_gid) = 2
    /\ ctor_gid[1] = ctor_gid[2]
    /\ Len(ctor_w.v) = 2
    /\ ctor_w.v[1] # ctor_w.v[2]
    /\ gset = <<[gene |-> ctor_gid[2], w |-> ctor_w.v[2]]>>

\* Both averages were computed on X, which covers the signature's genes, and
\* the signature has weights, all of the same value.
UniformScored ==
    /\ sig_pc = "built"
    /\ avg_w.called
    /\ avg_u.called
    /\ avg_w.res.exc = ""
    /\ avg_u.res.exc = ""
    /\ Len(gset) >= 1
    /\ \A i, j \in 1..Len(gset) : gset[i].w = gset[j].w

\* C8 as stated: with uniform weights, whatever their value, the weighted
\* average equals the unweighted one.
C8_UniformEqualsUnweighted == UniformScored => avg_w.res.val = avg_u.res.val

\* C8 amended: with uniform weights other than zero, the weighted average
\* equals the unweighted one.
C8_NonzeroUniformEqualsUnweighted ==
    (UniformScored /\ \A i \in 1..Len(gset) : gset[i].w # 0) =>
        avg_w.res.val = avg_u.res.val

\* C8 witness: two genes of weight -2 scored on a table of two samples whose
\* means differ.
C8_Witness ==
    /\ UniformScored
    /\ Len(gset) = 2
    /\ gset[1].w = -2
    /\ X.kind = "DataFrame"
    /\ Len(X.rows) = 2
    /\ avg_u.res.val[1] # avg_u.res.val[2]
    /\ avg_w.res.val = avg_u.res.val

\* Row i of the table shares its symbol with another row.
SharesSymbol(i) ==
    \E j \in 1..Len(data) : j # i /\ data[j].Symbol = data[i].Symbol

\* C9: id_from_symbol(gene_from_id(x)) = x for every identifier x of the
\* table whose symbol no other row has, and id_from_symbol of a shared symbol
\* is the identifier of the last row that has it.
C9_ReverseIndexRoundTrip ==
    data # None =>
        \A i \in 1..Len(data) :
            /\ gene_from_id(data[i].EntrezID) = Ok(data[i].Symbol)
            /\ ~SharesSymbol(i) =>
                  id_from_symbol(gene_from_id(data[i].EntrezID).val)
                      = Ok(data[i].EntrezID)
            /\ id_from_symbol(data[i].Symbol) =
                  Ok(data[LastIndexOf(Column(data, "Symbol"), data[i].Symbol)].EntrezID)

\* C9 witness: two rows share a symbol and id_from_symbol of it returned the
\* second row's identifier.
C9_Witness ==
    /\ data # None
    /\ Len(data) = 2
    /\ data[1].Symbol = data[2].Symbol
    /\ ann_op = Call("id_from_symbol", data[1].Symbol)
    /\ ann_res = Ok(data[2].EntrezID)

\* C10: a load that fails because the key is absent leaves the version tag,
\* the rows and the reverse index as they were.
C10_FailedLoadChangesNothing ==
    [][(ann_op'.name = "load" /\ ann_res'.exc = "KeyError") =>
          /\ version' = version
          /\ data' = data
          /\ gene_to_id' = gene_to_id]_vars

===========================================================================
